---- MODULE Spec2Model ----
(***************************************************************************)
(* A model of the dictionary front end's two stateful cores:               *)
(*                                                                         *)
(*   - the search store (src/src/store/useSearchStore.ts): the page cache  *)
(*     (an LRU cache of result pages), the loading set, the session fields *)
(*     and the asynchronous performSearch / loadPages / init operations,   *)
(*     together with the native collaborator they call through invoke;     *)
(*   - the match coordinator (src/src/components/EntriesView.tsx) over the *)
(*     per-frame highlight engine (utils/iframeTools/highlight).           *)
(*                                                                         *)
(* Every await of the code is a point where other handlers may run, so an  *)
(* asynchronous operation is one action per run-to-completion segment.     *)
(***************************************************************************)
EXTENDS Integers, Sequences, FiniteSets, TLC

VARIABLES
    \* ---- search store (useSearchStore.ts)
    pageCache,          \* LRUCache<page, rows>: sequence, least recently used first
    loadingPages,       \* Set<number>
    searchTerm,
    searchMode,
    totalCount,
    currentIndex,
    entryCacheVersion,
    loading,
    error,
    accessLog,          \* history: the cached pages, least recently accessed
                        \* first, an access being pageCache.set or a
                        \* pageCache.get that hits
    \* ---- the asynchronous calls in flight
    searches,           \* performSearch calls, one record per call slot
    loaders,            \* the consumer's loadPages and loadEntries calls, one
                        \* record per call slot
    initCall,           \* the init() call
    fetches,            \* getResultKeyList requests in flight
    issueOrder,         \* the performSearch calls in flight, oldest first
    latest,             \* the most recently issued performSearch call
    \* ---- the native collaborator behind invoke
    backend,            \* the result set its key list is read from
    failures,           \* collaborator failures so far
    ipcOrder,           \* the order in which it answers page requests
    \* ---- match coordinator (EntriesView.tsx) and highlight engine
    frames,             \* per content item: its lifecycle and its highlightContext
    passes,             \* mark.js passes that have started and not yet called done
    broadcasts,         \* EntriesView.setHighlight calls, one record per call slot
    highlight,          \* the highlight prop handed to the content items
    registry,           \* contentItemRefs: the keys of the Map, in insertion order
    lastCall,           \* the navigation call or query handled last, if the
                        \* last step was one, and its outcome
    \* ---- history store (useHistoryStore.ts)
    historyStore,       \* its state: history, currentIndex, loading, error
    historyCalls,       \* the wrapped calls in flight, one record per call slot
    historyBackend      \* the number of entries the backend has created

storeVars == <<pageCache, loadingPages, searchTerm, searchMode, totalCount,
               currentIndex, entryCacheVersion, loading, error, accessLog>>
callVars == <<searches, loaders, initCall, fetches, issueOrder, latest>>
envVars == <<backend, failures, ipcOrder>>
frameVars == <<frames, passes, broadcasts, highlight, registry, lastCall>>
historyVars == <<historyStore, historyCalls, historyBackend>>
vars == <<storeVars, callVars, envVars, frameVars, historyVars>>

----------------------------------------------------------------------------
(* Program constants *)

PAGE_SIZE == 50
MAX_CACHED_PAGES == 20

(* Bounds of the model *)

\* Spec: entryCacheVersion, counting the bumps the calls in flight can still make.
MaxVersion == 4
\* SpecSeq: the same, for a session that loads a whole result set.
MaxVersionSeq == 23
\* SpecLoad: the same, for one search and the windows loaded after it.
MaxVersionLoad == 5
\* SpecEntries: the same, for one search and the rows fetched after it.
MaxVersionEntries == 5
\* collaborator calls that fail in one behaviour
MaxFailures == 1
\* SpecFrames: content items displayed by the EntriesView, in document order
NumFrames == 3
\* SpecHistory: entries added to the history in one behaviour
MaxHistoryAdds == 3

----------------------------------------------------------------------------
(* Values *)

Min(a, b) == IF a <= b THEN a ELSE b
Max(a, b) == IF a >= b THEN a ELSE b

\* Strings are sequences of characters, so that trim() is computed.
Cat == <<"c", "a", "t">>
Dog == <<"d", "o", "g">>
Blank == <<" ", " ">>
Empty == <<>>
Queries == {Empty, Blank, Cat, Dog}
Modes == {"index", "fulltext"}

Undefined == [undefined |-> TRUE]
Rejected == [rejected |-> TRUE]
PerformSearchError == "Failed to perform search"
InitError == "Failed to initialize search"

SearchSlots == {"S1", "S2"}
LoaderSlots == {"L1", "L2"}
EntrySlots == {"E1"}

\* String.prototype.trim: leading and trailing white space removed.
RECURSIVE TrimStart(_)
TrimStart(q) == IF q # <<>> /\ Head(q) = " " THEN TrimStart(Tail(q)) ELSE q

RECURSIVE TrimEnd(_)
TrimEnd(q) ==
    IF q # <<>> /\ q[Len(q)] = " " THEN TrimEnd(SubSeq(q, 1, Len(q) - 1)) ELSE q

\* A faulty variant of the blank-query test, for mutation of the model: the
\* query is not trimmed.
TrimNot(q) == q

Trim(q) == TrimEnd(TrimStart(q))

----------------------------------------------------------------------------
(* The native collaborator (search_search_incremental, search_fulltext_search,
   search_get_result_key_list).  It answers a search with the start entry and
   the size of the result set, which becomes the set its key list is read
   from; {start_entry_no: -1, total_count: 0} is "no results".              *)

SearchAnswer(q, mode) ==
    IF Trim(q) = Cat
    THEN IF mode = "index" THEN [start_entry_no |-> 120, total_count |-> 300]
                           ELSE [start_entry_no |-> -1, total_count |-> 0]
    ELSE IF mode = "index" THEN [start_entry_no |-> 0, total_count |-> 1000]
                           ELSE [start_entry_no |-> 0, total_count |-> 1050]

\* getResultKeyList(startIndexNo, maxCount): the rows of the collaborator's
\* current result set from startIndexNo on, at most maxCount of them.  A page
\* is recorded by the result set it was read from and its number of rows.
KeyList(startIndexNo, maxCount) ==
    [term |-> backend.term, mode |-> backend.mode,
     len |-> Max(0, Min(maxCount, backend.total - startIndexNo))]

----------------------------------------------------------------------------
(* lru-cache: LRUCache<number, SearchResultEntry[]>({max: MAX_CACHED_PAGES}) *)

CachedPages(cache) == {cache[i].page : i \in 1..Len(cache)}

LruHas(cache, page) == page \in CachedPages(cache)

LruWithout(cache, page) == SelectSeq(cache, LAMBDA e : e.page # page)

LruPeek(cache, page) ==
    LET e == CHOOSE x \in {cache[i] : i \in 1..Len(cache)} : x.page = page
    IN e.rows

\* Faulty variants of set(), for mutation of the model: one that never drops an entry,
\* one that keeps one entry fewer than max.
LruSetUnbounded(cache, page, rows) ==
    Append(LruWithout(cache, page), [page |-> page, rows |-> rows])

LruSetTight(cache, page, rows) ==
    LET put == Append(LruWithout(cache, page), [page |-> page, rows |-> rows])
    IN IF Len(put) >= MAX_CACHED_PAGES THEN Tail(put) ELSE put

\* set(): the entry becomes the most recently used one; over max, the least
\* recently used entry is dropped.
LruSet(cache, page, rows) ==
    LET put == Append(LruWithout(cache, page), [page |-> page, rows |-> rows])
    IN IF Len(put) > MAX_CACHED_PAGES THEN Tail(put) ELSE put

\* Faulty variants of get(), for mutation of the model: a hit does not change
\* the recency of the entry (peek); a hit removes the entry.
LruTouchNot(cache, page) == cache

LruTouchDrops(cache, page) == LruWithout(cache, page)

\* get(): a hit makes the entry the most recently used one.
LruTouch(cache, page) ==
    IF LruHas(cache, page)
    THEN Append(LruWithout(cache, page), [page |-> page, rows |-> LruPeek(cache, page)])
    ELSE cache

\* The access history after an access to `page`, `cached` being the pages the
\* cache holds after it.
Accessed(log, page, cached) ==
    SelectSeq(Append(SelectSeq(log, LAMBDA p : p # page), page),
              LAMBDA p : p \in cached)

----------------------------------------------------------------------------
(* Helper functions of the store *)

PageOf(index) == index \div PAGE_SIZE

RECURSIVE PagesFrom(_, _, _, _)
PagesFrom(page, lastPage, cache, loadingSet) ==
    IF page > lastPage THEN <<>>
    ELSE IF page \notin loadingSet /\ ~LruHas(cache, page)
         THEN <<page>> \o PagesFrom(page + 1, lastPage, cache, loadingSet)
         ELSE PagesFrom(page + 1, lastPage, cache, loadingSet)

\* A faulty variant of getPagesToLoad, for mutation of the model: it skips
\* the cached pages only, not the pages being loaded.
getPagesNotCached(firstPage, lastPage, cache, loadingSet) ==
    PagesFrom(firstPage, lastPage, cache, {})

\* A faulty variant of getPagesToLoad, for mutation of the model: the loop
\* starts one page early.
getPagesFromBefore(firstPage, lastPage, cache, loadingSet) ==
    PagesFrom(Max(0, firstPage - 1), lastPage, cache, loadingSet)

getPagesToLoad(firstPage, lastPage, cache, loadingSet) ==
    PagesFrom(firstPage, lastPage, cache, loadingSet)

markPagesAsLoading(pages, loadingSet) ==
    loadingSet \cup {pages[i] : i \in 1..Len(pages)}

\* loadPagesInParallel: one getResultKeyList request per page, all issued at once.
NewFetches(owner, pages) ==
    {[owner |-> owner, page |-> pages[i], st |-> "sent", rows |-> Undefined] :
        i \in 1..Len(pages)}

\* getItem(index) as a value: the row, named by its result set and its index.
ItemAt(cache, index) ==
    IF ~LruHas(cache, PageOf(index)) THEN Undefined
    ELSE LET pageData == LruPeek(cache, PageOf(index))
             offsetInPage == index % PAGE_SIZE
         IN IF offsetInPage < pageData.len
            THEN [term |-> pageData.term, mode |-> pageData.mode, index |-> index]
            ELSE Undefined

isItemLoaded(index) == LruHas(pageCache, PageOf(index))

\* The loop of loadEntries from `index` on: each getItem is a use of its page;
\* a row that is missing ends the loop with the not-found error.  The result
\* array holds each entry at its own index (entries[index] = entry).
RECURSIVE ReadFrom(_, _, _, _, _)
ReadFrom(cache, log, index, endIndex, entries) ==
    IF index > endIndex
    THEN [cache |-> cache, log |-> log, entries |-> entries, error |-> FALSE]
    ELSE LET entry == ItemAt(cache, index)
             used == LruTouch(cache, PageOf(index))
             usedLog == Accessed(log, PageOf(index), CachedPages(used))
         IN IF entry # Undefined
            THEN ReadFrom(used, usedLog, index + 1, endIndex,
                          entries @@ (index :> entry))
            ELSE [cache |-> used, log |-> usedLog, entries |-> <<>>,
                  error |-> TRUE]

\* A faulty variant of the loop, for mutation of the model: a missing row is
\* left as a hole instead of being reported.
ReadEntriesPadded(cache, log, startIndex, endIndex) ==
    [cache |-> cache, log |-> log, error |-> FALSE,
     entries |-> [i \in startIndex..endIndex |-> ItemAt(cache, i)]]

ReadEntries(cache, log, startIndex, endIndex) ==
    ReadFrom(cache, log, startIndex, endIndex, <<>>)

\* loadEntries after its await of loadPages: what the call settles with.
EntriesOutcome(call, read) ==
    [pc |-> IF read.error THEN "notfound" ELSE "returned",
     s |-> call.s, e |-> call.e, entries |-> read.entries]

----------------------------------------------------------------------------
(* Calls in flight *)

IdleSearch == [pc |-> "idle", q |-> Empty, mode |-> "index", res |-> Undefined]
IdleLoader == [pc |-> "idle", s |-> 0, e |-> 0]
IdleEntries == [pc |-> "idle", s |-> 0, e |-> 0, entries |-> <<>>]

InFlightSearch(s) == searches[s].pc # "idle"
OwnFetches(o) == {f \in fetches : f.owner = o}

\* What the calls in flight may still add to entryCacheVersion.
PendingBumps ==
    2 * Cardinality({s \in SearchSlots : searches[s].pc \in {"sent", "served"}})
    + Cardinality(fetches)
    + (IF initCall = "waiting" THEN 1 ELSE 0)

WithinBudget(max) == entryCacheVersion + PendingBumps <= max

Quiescent ==
    /\ \A s \in SearchSlots : ~InFlightSearch(s)
    /\ \A l \in LoaderSlots : loaders[l].pc # "pending"
    /\ initCall = "idle"
    /\ fetches = {}

----------------------------------------------------------------------------
(* Initial state: the module's constants and the store's initial state object *)

\* History kept with the most recently issued performSearch call while it is
\* in flight: the cached pages and the session fields at the time of the call.
NoSnapshot == [cache |-> {}, term |-> Empty, total |-> 0, index |-> -1]
SessionSnapshot ==
    [cache |-> {pageCache[i] : i \in 1..Len(pageCache)}, term |-> searchTerm,
     total |-> totalCount, index |-> currentIndex]

StoreInitState ==
    /\ pageCache = <<>>
    /\ loadingPages = {}
    /\ searchTerm = Empty
    /\ searchMode = "index"
    /\ totalCount = 0
    /\ currentIndex = -1
    /\ entryCacheVersion = 0
    /\ loading = FALSE
    /\ error = "null"
    /\ accessLog = <<>>
    /\ searches = [s \in SearchSlots |-> IdleSearch]
    /\ loaders = [l \in LoaderSlots \cup EntrySlots |->
                    IF l \in LoaderSlots THEN IdleLoader ELSE IdleEntries]
    /\ initCall = "idle"
    /\ fetches = {}
    /\ issueOrder = <<>>
    /\ latest = [slot |-> "none", q |-> Empty, mode |-> "index", over |-> FALSE,
                 out |-> "none", before |-> NoSnapshot]
    /\ backend = [term |-> Empty, mode |-> "index", total |-> 0]
    /\ failures = 0

\* The EntriesView once its content items have mounted: every ref is set and
\* no item has fetched its content yet.
FrameIds == 1..NumFrames
BroadcastSlots == {"B1", "B2"}
NoContext(status) ==
    [status |-> status, matchedNode |-> 0, currentMatchIndex |-> -1,
     markInstance |-> FALSE]
IdleBroadcast == [st |-> "idle", pending |-> {}]
NoCall == [op |-> "none", result |-> "none"]

FramesInitState ==
    /\ frames = [f \in FrameIds |-> NoContext("mounted")]
    /\ passes = {}
    /\ broadcasts = [b \in BroadcastSlots |-> IdleBroadcast]
    /\ highlight = ""
    /\ registry = [i \in 1..NumFrames |-> i]
    /\ lastCall = NoCall

\* The history store as created, before anything has been added.
HistorySlots == {"H1", "H2"}
HistoryInitState ==
    /\ historyStore = [history |-> <<>>, currentIndex |-> -1, loading |-> FALSE,
                       error |-> "null"]
    /\ historyCalls = [c \in HistorySlots |-> [op |-> "idle", id |-> 0]]
    /\ historyBackend = 0

Init ==
    /\ StoreInitState
    /\ HistoryInitState
    /\ ipcOrder = "any"
    /\ FramesInitState

----------------------------------------------------------------------------
(* clearSearchState *)

ClearedSession ==
    /\ searchTerm' = Empty
    /\ totalCount' = 0
    /\ currentIndex' = -1
    /\ error' = "null"
    /\ loading' = FALSE

(* performSearch(query), wrapped by withAsyncHandler: up to its first await.
   An empty or blank query clears the session and returns; otherwise the
   search request goes to the collaborator, in the mode read at the call.  *)
PerformSearch(s, query) ==
    /\ searches[s].pc = "idle"
    /\ OwnFetches(s) = {}
    /\ IF Trim(query) = Empty
       THEN /\ ClearedSession
            /\ latest' = [slot |-> "none", q |-> query, mode |-> searchMode,
                          out |-> "cleared", before |-> NoSnapshot,
                          over |-> \E o \in SearchSlots : InFlightSearch(o)]
            /\ UNCHANGED <<searches, issueOrder>>
       ELSE /\ loading' = TRUE
            /\ error' = "null"
            /\ searches' = [searches EXCEPT ![s] =
                    [pc |-> "sent", q |-> query, mode |-> searchMode, res |-> Undefined]]
            /\ issueOrder' = Append(issueOrder, s)
            /\ latest' = [slot |-> s, q |-> query, mode |-> searchMode, out |-> "none",
                          before |-> SessionSnapshot,
                          over |-> \E o \in SearchSlots : InFlightSearch(o)]
            /\ UNCHANGED <<searchTerm, totalCount, currentIndex>>
    /\ UNCHANGED <<pageCache, loadingPages, searchMode, entryCacheVersion, accessLog>>
    /\ UNCHANGED <<loaders, initCall, fetches, envVars>>

\* The call of slot s settles: it leaves the calls in flight, and its outcome is
\* recorded if it is the most recently issued call.
Settles(s, out) ==
    /\ issueOrder' = SelectSeq(issueOrder, LAMBDA x : x # s)
    /\ latest' = IF latest.slot = s /\ latest.out = "none"
                  THEN [latest EXCEPT !.out = out, !.before = NoSnapshot]
                  ELSE latest

\* Slot o's search was issued before slot s's.
IssuedBefore(o, s) ==
    \E i, j \in 1..Len(issueOrder) : i < j /\ issueOrder[i] = o /\ issueOrder[j] = s

(* The collaborator runs a search: the searches in the order they were issued.
   The result set it serves key lists from is replaced.                   *)
ServeSearch(s) ==
    /\ searches[s].pc = "sent"
    /\ \A o \in SearchSlots : searches[o].pc = "sent" => ~IssuedBefore(o, s)
    /\ LET answer == SearchAnswer(searches[s].q, searches[s].mode)
       IN /\ searches' = [searches EXCEPT ![s].pc = "served", ![s].res = answer]
          /\ backend' = [term |-> searches[s].q, mode |-> searches[s].mode,
                         total |-> answer.total_count]
    /\ UNCHANGED <<storeVars, loaders, initCall, fetches, issueOrder, latest, failures, ipcOrder>>

\* The search command fails: the invoke promise will reject.
FailSearch(s) ==
    /\ searches[s].pc = "sent"
    /\ failures < MaxFailures
    /\ failures' = failures + 1
    /\ searches' = [searches EXCEPT ![s].pc = "served", ![s].res = Rejected]
    /\ UNCHANGED <<storeVars, loaders, initCall, fetches, issueOrder, latest, backend, ipcOrder>>

\* A faulty variant of the no-results branch, for mutation of the model: it
\* returns without clearing the old cache.
NoResultsKeepsCache(s) ==
    /\ entryCacheVersion' = entryCacheVersion + 1
    /\ searchTerm' = searches[s].q
    /\ totalCount' = 0
    /\ currentIndex' = -1
    /\ loading' = FALSE
    /\ searches' = [searches EXCEPT ![s] = IdleSearch]
    /\ Settles(s, "ok")
    /\ UNCHANGED <<pageCache, accessLog, loadingPages, error, fetches>>

\* performSearch, no results found (start_entry_no = -1): the old cache is
\* cleared and the session is set to the query with no rows.
NoResults(s) ==
    /\ pageCache' = <<>>
    /\ accessLog' = <<>>
    /\ loadingPages' = {}
    /\ entryCacheVersion' = entryCacheVersion + 1
    /\ searchTerm' = searches[s].q
    /\ totalCount' = 0
    /\ currentIndex' = -1
    /\ loading' = FALSE
    /\ searches' = [searches EXCEPT ![s] = IdleSearch]
    /\ Settles(s, "ok")
    /\ UNCHANGED <<error, fetches>>

(* performSearch resumes with the search result (or its rejection), up to the
   await of loadPages.                                                    *)
SearchAnswered(s) ==
    /\ searches[s].pc = "served"
    /\ LET res == searches[s].res IN
       IF res = Rejected
       THEN \* withAsyncHandler: catch, finally
            /\ error' = PerformSearchError
            /\ loading' = FALSE
            /\ searches' = [searches EXCEPT ![s] = IdleSearch]
            /\ Settles(s, "failed")
            /\ UNCHANGED <<pageCache, loadingPages, searchTerm, totalCount,
                           currentIndex, entryCacheVersion, fetches, accessLog>>
       ELSE IF res.start_entry_no = -1
       THEN NoResults(s)
       ELSE \* the cache is cleared, then loadPages(start, start) is awaited
            LET pagesToLoad == getPagesToLoad(PageOf(res.start_entry_no),
                                              PageOf(res.start_entry_no), <<>>, {})
            IN /\ pageCache' = <<>>
               /\ accessLog' = <<>>
               /\ loadingPages' = markPagesAsLoading(pagesToLoad, {})
               /\ entryCacheVersion' = entryCacheVersion + 1
               /\ fetches' = fetches \cup NewFetches(s, pagesToLoad)
               /\ searches' = [searches EXCEPT ![s].pc = "loading"]
               /\ UNCHANGED <<searchTerm, totalCount, currentIndex, loading, error,
                              issueOrder, latest>>
    /\ UNCHANGED <<searchMode, loaders, initCall, envVars>>

(* loadPages(startIndex, endIndex), called by the windowing consumer *)
LoadPages(l, startIndex, endIndex) ==
    /\ loaders[l].pc # "pending"
    /\ OwnFetches(l) = {}
    /\ LET pagesToLoad == getPagesToLoad(PageOf(startIndex), PageOf(endIndex),
                                         pageCache, loadingPages)
       IN IF Len(pagesToLoad) = 0
          THEN /\ loaders' = [loaders EXCEPT ![l] =
                        [pc |-> "resolved", s |-> startIndex, e |-> endIndex]]
               /\ UNCHANGED <<loadingPages, fetches>>
          ELSE /\ loadingPages' = markPagesAsLoading(pagesToLoad, loadingPages)
               /\ fetches' = fetches \cup NewFetches(l, pagesToLoad)
               /\ loaders' = [loaders EXCEPT ![l] =
                        [pc |-> "pending", s |-> startIndex, e |-> endIndex]]
    /\ UNCHANGED <<pageCache, searchTerm, searchMode, totalCount, currentIndex,
                   entryCacheVersion, loading, error, accessLog>>
    /\ UNCHANGED <<searches, initCall, issueOrder, latest, envVars>>

(* loadEntries(startIndex, endIndex): loadPages is awaited, then every index
   is read with getItem.  With nothing to load the call goes on at once.    *)
LoadEntries(c, startIndex, endIndex) ==
    /\ loaders[c].pc # "pending"
    /\ OwnFetches(c) = {}
    /\ LET pagesToLoad == getPagesToLoad(PageOf(startIndex), PageOf(endIndex),
                                         pageCache, loadingPages)
           call == [pc |-> "pending", s |-> startIndex, e |-> endIndex,
                    entries |-> <<>>]
       IN IF Len(pagesToLoad) = 0
          THEN LET read == ReadEntries(pageCache, accessLog, startIndex, endIndex)
               IN /\ pageCache' = read.cache
                  /\ accessLog' = read.log
                  /\ loaders' = [loaders EXCEPT ![c] = EntriesOutcome(call, read)]
                  /\ UNCHANGED <<loadingPages, fetches>>
          ELSE /\ loadingPages' = markPagesAsLoading(pagesToLoad, loadingPages)
               /\ fetches' = fetches \cup NewFetches(c, pagesToLoad)
               /\ loaders' = [loaders EXCEPT ![c] = call]
               /\ UNCHANGED <<pageCache, accessLog>>
    /\ UNCHANGED <<searchTerm, searchMode, totalCount, currentIndex,
                   entryCacheVersion, loading, error>>
    /\ UNCHANGED <<searches, initCall, issueOrder, latest, envVars>>

\* The collaborator answers page requests in any order, or (ipcOrder) one at a
\* time, lowest or highest page number first, each answer reaching the store
\* before the next request is handled.
Turn(f, stage) ==
    LET waiting == {g.page : g \in {h \in fetches : h.st \in stage}}
    IN \/ ipcOrder = "any"
       \/ /\ ipcOrder = "ascending"
          /\ \A p \in waiting : f.page <= p
          /\ f.st = "sent" => \A g \in fetches : g.st = "sent"
       \/ /\ ipcOrder = "descending"
          /\ \A p \in waiting : f.page >= p
          /\ f.st = "sent" => \A g \in fetches : g.st = "sent"

\* The collaborator reads the page from its current result set.
ServeFetch(f) ==
    /\ f \in fetches
    /\ f.st = "sent"
    /\ Turn(f, {"sent"})
    /\ fetches' = (fetches \ {f}) \cup
            {[f EXCEPT !.st = "ok", !.rows = KeyList(f.page * PAGE_SIZE, PAGE_SIZE)]}
    /\ UNCHANGED <<storeVars, searches, loaders, initCall, issueOrder, latest, envVars>>

FailFetch(f) ==
    /\ f \in fetches
    /\ f.st = "sent"
    /\ Turn(f, {"sent"})
    /\ failures < MaxFailures
    /\ failures' = failures + 1
    /\ fetches' = (fetches \ {f}) \cup {[f EXCEPT !.st = "rejected"]}
    /\ UNCHANGED <<storeVars, searches, loaders, initCall, issueOrder, latest, backend, ipcOrder>>

\* The caller's continuation once loadSinglePage(f.page) has settled and
\* `left` are the caller's requests still in flight: Promise.all resolves with
\* the last page and rejects with the first failure.
OwnerResumes(f, left, ok) ==
    IF f.owner \in EntrySlots
    THEN \* loadEntries: a failure rejects the call, the last page lets it read
         LET call == loaders[f.owner]
             read == ReadEntries(LruSet(pageCache, f.page, f.rows), accessLog,
                                 call.s, call.e)
         IN /\ loaders' = [loaders EXCEPT ![f.owner] =
                    IF call.pc # "pending" THEN call
                    ELSE IF ~ok THEN [call EXCEPT !.pc = "rejected"]
                    ELSE IF left = {} THEN EntriesOutcome(call, read)
                    ELSE call]
            /\ UNCHANGED <<searches, issueOrder, latest, searchTerm, totalCount,
                           currentIndex, loading, error>>
    ELSE IF f.owner \in LoaderSlots
    THEN /\ loaders' = [loaders EXCEPT ![f.owner].pc =
                IF loaders[f.owner].pc # "pending" THEN loaders[f.owner].pc
                ELSE IF ~ok THEN "rejected"
                ELSE IF left = {} THEN "resolved" ELSE "pending"]
         /\ UNCHANGED <<searches, issueOrder, latest, searchTerm, totalCount,
                        currentIndex, loading, error>>
    ELSE LET call == searches[f.owner] IN
         /\ UNCHANGED loaders
         /\ searches' = [searches EXCEPT ![f.owner] = IdleSearch]
         /\ IF ok
            THEN \* performSearch: the session fields are set together
                 /\ searchTerm' = call.q
                 /\ totalCount' = call.res.total_count
                 /\ currentIndex' = call.res.start_entry_no
                 /\ loading' = FALSE
                 /\ Settles(f.owner, "ok")
                 /\ UNCHANGED error
            ELSE \* withAsyncHandler: catch, finally
                 /\ error' = PerformSearchError
                 /\ loading' = FALSE
                 /\ Settles(f.owner, "failed")
                 /\ UNCHANGED <<searchTerm, totalCount, currentIndex>>

\* The arrival of f's page resolves the loadPages call that a pending
\* loadEntries call awaits.
EntriesResume(f) ==
    /\ f.owner \in EntrySlots
    /\ loaders[f.owner].pc = "pending"
    /\ OwnFetches(f.owner) \ {f} = {}

(* loadSinglePage resumes after its await: the page is stored, released from
   the loading set and the version bumped; or the failure path is taken.   *)
PageArrives(f) ==
    /\ f \in fetches
    /\ f.st = "ok"
    /\ Turn(f, {"ok", "rejected"})
    /\ LET stored == LruSet(pageCache, f.page, f.rows)
           storedLog == Accessed(accessLog, f.page, CachedPages(stored))
       IN IF EntriesResume(f)
          THEN \* loadEntries goes on past its await and reads its rows
               LET read == ReadEntries(stored, storedLog,
                                       loaders[f.owner].s, loaders[f.owner].e)
               IN pageCache' = read.cache /\ accessLog' = read.log
          ELSE pageCache' = stored /\ accessLog' = storedLog
    /\ loadingPages' = loadingPages \ {f.page}
    /\ entryCacheVersion' = entryCacheVersion + 1
    /\ fetches' = fetches \ {f}
    /\ OwnerResumes(f, OwnFetches(f.owner) \ {f}, TRUE)
    /\ UNCHANGED <<searchMode, initCall, envVars>>

\* A faulty variant of the failure path, for mutation of the model: the
\* version is bumped for a failed fetch too.
PageFailsCounted(f) ==
    /\ f \in fetches
    /\ f.st = "rejected"
    /\ Turn(f, {"ok", "rejected"})
    /\ loadingPages' = loadingPages \ {f.page}
    /\ entryCacheVersion' = entryCacheVersion + 1
    /\ fetches' = fetches \ {f}
    /\ OwnerResumes(f, OwnFetches(f.owner) \ {f}, FALSE)
    /\ UNCHANGED <<pageCache, searchMode, initCall, envVars, accessLog>>

PageFails(f) ==
    /\ f \in fetches
    /\ f.st = "rejected"
    /\ Turn(f, {"ok", "rejected"})
    /\ loadingPages' = loadingPages \ {f.page}
    /\ fetches' = fetches \ {f}
    /\ OwnerResumes(f, OwnFetches(f.owner) \ {f}, FALSE)
    /\ UNCHANGED <<pageCache, entryCacheVersion, searchMode, initCall, envVars,
                   accessLog>>

(* getItem(index): pageCache.get, which is a use of the page if it is cached;
   if it is not, undefined is returned and nothing else happens *)
GetItem(index) ==
    /\ pageCache' = LruTouch(pageCache, PageOf(index))
    /\ accessLog' = Accessed(accessLog, PageOf(index), CachedPages(pageCache'))
    /\ UNCHANGED <<loadingPages, searchTerm, searchMode, totalCount, currentIndex,
                   entryCacheVersion, loading, error>>
    /\ UNCHANGED <<callVars, envVars>>

(* isItemLoaded(index): pageCache.has, which is no use of the page *)
IsItemLoaded(index) ==
    /\ isItemLoaded(index) \in BOOLEAN
    /\ UNCHANGED <<storeVars, callVars, envVars>>

(* setSearchMode(mode) *)
SetSearchMode(mode) ==
    /\ searchMode' = mode
    /\ UNCHANGED <<pageCache, loadingPages, searchTerm, totalCount, currentIndex,
                   entryCacheVersion, loading, error, accessLog>>
    /\ UNCHANGED <<callVars, envVars>>

(* init(): up to the await of getMainDbProfile *)
StoreInit ==
    /\ initCall = "idle"
    /\ pageCache' = <<>>
    /\ accessLog' = <<>>
    /\ loadingPages' = {}
    /\ searchTerm' = Empty
    /\ totalCount' = 0
    /\ currentIndex' = -1
    /\ error' = "null"
    /\ loading' = TRUE
    /\ initCall' = "waiting"
    /\ UNCHANGED <<searchMode, entryCacheVersion>>
    /\ UNCHANGED <<searches, loaders, fetches, issueOrder, latest, envVars>>

StoreInitDone ==
    /\ initCall = "waiting"
    /\ entryCacheVersion' = entryCacheVersion + 1
    /\ loading' = FALSE
    /\ initCall' = "idle"
    /\ UNCHANGED <<pageCache, loadingPages, searchTerm, searchMode, totalCount,
                   currentIndex, error, accessLog>>
    /\ UNCHANGED <<searches, loaders, fetches, issueOrder, latest, envVars>>

StoreInitFails ==
    /\ initCall = "waiting"
    /\ failures < MaxFailures
    /\ failures' = failures + 1
    /\ error' = InitError
    /\ loading' = FALSE
    /\ initCall' = "idle"
    /\ UNCHANGED <<pageCache, loadingPages, searchTerm, searchMode, totalCount,
                   currentIndex, entryCacheVersion, accessLog>>
    /\ UNCHANGED <<searches, loaders, fetches, issueOrder, latest, backend, ipcOrder>>

----------------------------------------------------------------------------
(* Spec: the store under overlapping calls, with the inputs of a small session *)

SearchInputs == {Empty, Blank, Cat, Dog}
LoadRanges == {<<100, 149>>, <<50, 149>>}
ReadIndexes == {120}

\* A new call takes the first free call slot.
FreeSlot(s) == searches[s].pc = "idle" /\ OwnFetches(s) = {}
FreeSearchSlot(s) == FreeSlot(s) /\ (s = "S1" \/ ~FreeSlot("S1"))

CallSearch ==
    \E s \in SearchSlots, q \in SearchInputs :
        /\ FreeSearchSlot(s) /\ PerformSearch(s, q) /\ WithinBudget(MaxVersion)'
        /\ UNCHANGED <<frameVars, historyVars>>
CallLoadPages ==
    \E r \in LoadRanges :
        /\ LoadPages("L1", r[1], r[2]) /\ WithinBudget(MaxVersion)'
        /\ UNCHANGED <<frameVars, historyVars>>
CallInit == StoreInit /\ WithinBudget(MaxVersion)' /\ UNCHANGED <<frameVars, historyVars>>
CallGetItem == \E i \in ReadIndexes : GetItem(i) /\ UNCHANGED <<frameVars, historyVars>>
CallSetSearchMode == \E m \in Modes : SetSearchMode(m) /\ UNCHANGED <<frameVars, historyVars>>
SearchServed == \E s \in SearchSlots : ServeSearch(s) /\ UNCHANGED <<frameVars, historyVars>>
SearchFails == \E s \in SearchSlots : FailSearch(s) /\ UNCHANGED <<frameVars, historyVars>>
SearchResumes == \E s \in SearchSlots : SearchAnswered(s) /\ UNCHANGED <<frameVars, historyVars>>
FetchServed == \E f \in fetches : ServeFetch(f) /\ UNCHANGED <<frameVars, historyVars>>
FetchFails == \E f \in fetches : FailFetch(f) /\ UNCHANGED <<frameVars, historyVars>>
FetchResolves == \E f \in fetches : PageArrives(f) /\ UNCHANGED <<frameVars, historyVars>>
FetchRejects == \E f \in fetches : PageFails(f) /\ UNCHANGED <<frameVars, historyVars>>
InitResolves == StoreInitDone /\ UNCHANGED <<frameVars, historyVars>>
InitRejects == StoreInitFails /\ UNCHANGED <<frameVars, historyVars>>

Next ==
    \/ CallSearch
    \/ CallLoadPages
    \/ CallInit
    \/ CallGetItem
    \/ CallSetSearchMode
    \/ SearchServed
    \/ SearchFails
    \/ SearchResumes
    \/ FetchServed
    \/ FetchFails
    \/ FetchResolves
    \/ FetchRejects
    \/ InitResolves
    \/ InitRejects

Spec == Init /\ [][Next]_vars

----------------------------------------------------------------------------
(* SpecSeq: one caller at a time.  A call is made only when no call and no
   page request is in flight, and the consumer asks for the whole result set,
   loadPages(0, totalCount - 1).  The collaborator answers the page requests
   of one call lowest page first or highest page first.                    *)

InitSeq ==
    /\ StoreInitState
    /\ HistoryInitState
    /\ ipcOrder \in {"ascending", "descending"}
    /\ FramesInitState

SeqInputs == {Blank, Cat, Dog}
SeqReadIndexes == {0}

\* A search starts only while the budget still covers the search (two version
\* steps) and a cache-full of page arrivals after it.
SeqSearch ==
    \E q \in SeqInputs :
        /\ Quiescent
        /\ entryCacheVersion + 2 + MAX_CACHED_PAGES <= MaxVersionSeq
        /\ PerformSearch("S1", q)
        /\ UNCHANGED <<frameVars, historyVars>>
SeqLoadAll ==
    /\ Quiescent
    /\ totalCount > 0
    /\ LoadPages("L1", 0, totalCount - 1)
    /\ WithinBudget(MaxVersionSeq)'
    /\ UNCHANGED <<frameVars, historyVars>>
SeqGetItem ==
    \E i \in SeqReadIndexes : Quiescent /\ GetItem(i) /\ UNCHANGED <<frameVars, historyVars>>
SeqSetSearchMode ==
    \E m \in Modes : Quiescent /\ SetSearchMode(m) /\ UNCHANGED <<frameVars, historyVars>>

NextSeq ==
    \/ SeqSearch
    \/ SeqLoadAll
    \/ SeqGetItem
    \/ SeqSetSearchMode
    \/ SearchServed
    \/ SearchFails
    \/ SearchResumes
    \/ FetchServed
    \/ FetchFails
    \/ FetchResolves
    \/ FetchRejects

SpecSeq == InitSeq /\ [][NextSeq]_vars

----------------------------------------------------------------------------
(* SpecLoad: one search session and its windowing consumers.  A search starts
   only when nothing is in flight; while its result set is displayed the
   consumers call loadPages for overlapping windows, a second call being
   made while the first is pending.  No performSearch and no init runs
   while a window is being loaded.                                         *)

InitLoad ==
    /\ StoreInitState
    /\ HistoryInitState
    /\ ipcOrder = "any"
    /\ FramesInitState

LoadInputs == {Cat, Dog}
LoadWindows == {<<50, 149>>, <<100, 199>>}
LoadReadIndexes == {120}

\* A new loadPages call takes the first free call slot.
FreeLoader(l) == loaders[l].pc # "pending" /\ OwnFetches(l) = {}
FreeLoaderSlot(l) == FreeLoader(l) /\ (l = "L1" \/ ~FreeLoader("L1"))

NoSearchOrInit ==
    /\ \A s \in SearchSlots : ~InFlightSearch(s)
    /\ initCall = "idle"

LoadSearch ==
    \E q \in LoadInputs :
        /\ Quiescent
        /\ PerformSearch("S1", q)
        /\ WithinBudget(MaxVersionLoad)'
        /\ UNCHANGED <<frameVars, historyVars>>
LoadWindow ==
    \E l \in LoaderSlots, r \in LoadWindows :
        /\ NoSearchOrInit
        /\ FreeLoaderSlot(l)
        /\ LoadPages(l, r[1], r[2])
        /\ WithinBudget(MaxVersionLoad)'
        /\ UNCHANGED <<frameVars, historyVars>>
LoadGetItem == \E i \in LoadReadIndexes : GetItem(i) /\ UNCHANGED <<frameVars, historyVars>>
LoadIsItemLoaded ==
    \E i \in LoadReadIndexes : IsItemLoaded(i) /\ UNCHANGED <<frameVars, historyVars>>

NextLoad ==
    \/ LoadSearch
    \/ LoadWindow
    \/ LoadGetItem
    \/ LoadIsItemLoaded
    \/ SearchServed
    \/ SearchFails
    \/ SearchResumes
    \/ FetchServed
    \/ FetchFails
    \/ FetchResolves
    \/ FetchRejects

SpecLoad == InitLoad /\ [][NextLoad]_vars

----------------------------------------------------------------------------
(* SpecEntries: one search session, a consumer that loads a window with
   loadPages and a consumer that fetches rows with loadEntries, the two calls
   overlapping.  A search starts only when nothing is in flight.           *)

InitEntries ==
    /\ StoreInitState
    /\ HistoryInitState
    /\ ipcOrder = "any"
    /\ FramesInitState

EntryInputs == {Cat, Dog}
EntryLoadWindows == {<<50, 149>>}
EntryWindows == {<<45, 54>>, <<295, 304>>}

EntriesSearch ==
    \E q \in EntryInputs :
        /\ Quiescent
        /\ PerformSearch("S1", q)
        /\ WithinBudget(MaxVersionEntries)'
        /\ UNCHANGED <<frameVars, historyVars>>
EntriesWindow ==
    \E r \in EntryLoadWindows :
        /\ NoSearchOrInit
        /\ LoadPages("L1", r[1], r[2])
        /\ WithinBudget(MaxVersionEntries)'
        /\ UNCHANGED <<frameVars, historyVars>>
LoadEntriesCall ==
    \E c \in EntrySlots, r \in EntryWindows :
        /\ NoSearchOrInit
        /\ LoadEntries(c, r[1], r[2])
        /\ WithinBudget(MaxVersionEntries)'
        /\ UNCHANGED <<frameVars, historyVars>>

NextEntries ==
    \/ EntriesSearch
    \/ EntriesWindow
    \/ LoadEntriesCall
    \/ SearchServed
    \/ SearchFails
    \/ SearchResumes
    \/ FetchServed
    \/ FetchFails
    \/ FetchResolves
    \/ FetchRejects

SpecEntries == InitEntries /\ [][NextEntries]_vars

----------------------------------------------------------------------------
(* Claims about the store under overlapping calls (Spec) *)

\* The cached pages that hold rows.
RowPages == {pageCache[i] : i \in {j \in 1..Len(pageCache) : pageCache[j].rows.len > 0}}

\* C1: performSearch(b) issued before a pending performSearch has settled: once
\* every call and every page fetch has settled (and b succeeded), every row
\* reachable via getItem is a row of b's result set.
C1_OnlyLatestSearchPages ==
    (Quiescent /\ latest.over /\ latest.out = "ok")
        => \A e \in RowPages : e.rows.term = latest.q /\ e.rows.mode = latest.mode

\* C3: at every moment at most one getResultKeyList fetch per page number is
\* outstanding.
C3_OneFetchPerPage ==
    \A f, g \in fetches : f.page = g.page => f = g

\* C5: in every quiescent state each cached row was fetched for the current
\* search term and mode (the cache is cleared whenever either changes).
C5_CacheOfCurrentSession ==
    Quiescent => \A e \in RowPages : e.rows.term = searchTerm /\ e.rows.mode = searchMode

\* The step in which loadSinglePage's request f settles.
FetchSettles(f) ==
    \A g \in fetches' : ~(g.owner = f.owner /\ g.page = f.page)

\* C10: when a page fetch settles its page number is no longer in the loading
\* set; after a failure the page is absent from the cache and the next
\* loadPages covering it fetches it again.
C10_SettledFetchReleased ==
    [][\A f \in fetches : FetchSettles(f) =>
            /\ f.page \notin loadingPages'
            /\ f.st = "rejected" =>
                /\ ~LruHas(pageCache', f.page)
                /\ getPagesToLoad(f.page, f.page, pageCache', loadingPages') = <<f.page>>
      ]_vars

\* The steps in which a page arrives and is stored, and those in which
\* performSearch clears the cache after the collaborator's answer.
PageStored == \E f \in fetches : PageArrives(f)
SearchClears ==
    \E s \in SearchSlots : searches[s].res # Rejected /\ SearchAnswered(s)

\* C13 as stated: entryCacheVersion never decreases, and a step adds one to it
\* if a page arrives and is stored in it and nothing otherwise.
C13_OnlyArrivalsCount ==
    [][entryCacheVersion' - entryCacheVersion = (IF PageStored THEN 1 ELSE 0)]_vars

\* C13 amended: entryCacheVersion never decreases, and a step adds one to it
\* if a page arrives and is stored, if performSearch clears the cache after
\* the collaborator's answer, or if init's profile request resolves, and
\* nothing otherwise (a failed fetch, search or init does not change it).
C13_ArrivalsAndClearsCount ==
    [][entryCacheVersion' - entryCacheVersion =
            (IF PageStored \/ SearchClears \/ StoreInitDone THEN 1 ELSE 0)]_vars

\* C13 witness: after a search (one clear, page 0) the window 50..149 was
\* requested, page 1 arrived and the fetch of page 2 failed: three steps counted.
C13_Witness ==
    /\ entryCacheVersion = 3
    /\ CachedPages(pageCache) = {0, 1}
    /\ loaders["L1"].pc = "rejected"
    /\ failures = 1
    /\ fetches = {}

\* An empty query, or one of white space only.
IsBlank(q) == \A i \in 1..Len(q) : q[i] = " "

\* C16: a performSearch call with an empty or blank query, made in whatever
\* state, leaves totalCount = 0 and currentIndex = -1 and sends nothing to the
\* collaborator: no search request and no page request.
C16_BlankQueryClears ==
    [][\A s \in SearchSlots, q \in Queries :
            (IsBlank(q) /\ PerformSearch(s, q))
                => /\ totalCount' = 0
                   /\ currentIndex' = -1
                   /\ searches' = searches
                   /\ fetches' = fetches
      ]_vars

\* C16 witness: a session with results and a cached page was cleared by a
\* query of blanks, and no call is in flight.
C16_Witness ==
    /\ latest.out = "cleared"
    /\ latest.q = Blank
    /\ totalCount = 0
    /\ currentIndex = -1
    /\ pageCache # <<>>
    /\ Quiescent

\* The step in which performSearch of caller s goes on with the collaborator's
\* answer {start index -1}.
NoResultsAnswered(s) ==
    /\ searches[s].pc = "served"
    /\ searches[s].res # Rejected
    /\ searches[s].res.start_entry_no = -1
    /\ SearchAnswered(s)

\* C17: when the collaborator answers a search with start index -1,
\* performSearch leaves the page cache and the loading set empty, totalCount
\* 0 and currentIndex -1, and starts no page fetch.
C17_NoResultsClearsAll ==
    [][\A s \in SearchSlots :
            NoResultsAnswered(s)
                => /\ pageCache' = <<>>
                   /\ loadingPages' = {}
                   /\ totalCount' = 0
                   /\ currentIndex' = -1
                   /\ fetches' \subseteq fetches
                   /\ searches'[s] = IdleSearch
      ]_vars

\* C17 witness: a session with a cached page was followed by the full-text
\* search for "cat", which found nothing: the store is empty and at rest.
C17_Witness ==
    /\ latest = [slot |-> "S1", q |-> Cat, mode |-> "fulltext", over |-> FALSE,
                 out |-> "ok", before |-> NoSnapshot]
    /\ searchTerm = Cat
    /\ totalCount = 0
    /\ currentIndex = -1
    /\ pageCache = <<>>
    /\ loadingPages = {}
    /\ entryCacheVersion = 3
    /\ Quiescent

----------------------------------------------------------------------------
(* Claims about the store with one caller at a time (SpecSeq) *)

\* C4: the cache never holds more than MAX_CACHED_PAGES pages.
C4_CacheBounded == Len(pageCache) <= MAX_CACHED_PAGES

\* C4 witness: the whole 1050-row result set was loaded, 21 pages arrived and
\* the cache is full with one of them dropped.
C4_Witness ==
    /\ loaders["L1"] = [pc |-> "resolved", s |-> 0, e |-> 1049]
    /\ totalCount = 1050
    /\ Len(pageCache) = MAX_CACHED_PAGES
    /\ \E p \in 0..20 : ~LruHas(pageCache, p)

\* The step in which loadPages(0, totalCount - 1) of caller l resolves, the
\* collaborator serving the result set the session counts.
LoadAllResolves(l) ==
    /\ loaders'[l] # loaders[l]
    /\ loaders'[l].pc = "resolved"
    /\ totalCount' > 0
    /\ loaders'[l].s = 0
    /\ loaders'[l].e = totalCount' - 1
    /\ backend'.total = totalCount'

AllItemsDefined(cache, count) ==
    \A i \in 0..(count - 1) : ItemAt(cache, i) # Undefined

\* C9 as stated: for every totalCount, once loadPages(0, totalCount - 1) has
\* resolved, getItem(i) is defined for every i below totalCount.
C9_AnyCountDefined ==
    [][\A l \in LoaderSlots :
            LoadAllResolves(l) => AllItemsDefined(pageCache', totalCount')
      ]_vars

\* C9 amended: for every totalCount of at most MAX_CACHED_PAGES * PAGE_SIZE,
\* once loadPages(0, totalCount - 1), called with no other call in flight, has
\* resolved, getItem(i) is defined for every i below totalCount.
C9_CountWithinCacheDefined ==
    [][\A l \in LoaderSlots :
            (LoadAllResolves(l) /\ totalCount' <= MAX_CACHED_PAGES * PAGE_SIZE)
                => AllItemsDefined(pageCache', totalCount')
      ]_vars

\* C9 witness: the 1000-row result set, 20 pages, loaded in full.
C9_Witness ==
    /\ loaders["L1"] = [pc |-> "resolved", s |-> 0, e |-> 999]
    /\ totalCount = 1000
    /\ backend.total = 1000
    /\ fetches = {}
    /\ CachedPages(pageCache) = 0..19

\* The pages a step drops from the cache.
Evicted == CachedPages(pageCache) \ CachedPages(pageCache')

\* C12: whenever a page arrives that the cache does not hold while the cache
\* is full, the one page dropped is the cached page whose last access (its
\* storing, or a getItem read that hit it) lies furthest back.
C12_EvictsLeastRecentlyAccessed ==
    [][\A f \in fetches :
            (/\ PageArrives(f)
             /\ ~LruHas(pageCache, f.page)
             /\ Len(pageCache) = MAX_CACHED_PAGES)
            => /\ CachedPages(pageCache) = {accessLog[i] : i \in 1..Len(accessLog)}
               /\ Evicted = {Head(accessLog)}
      ]_vars

\* C12 witness: page 0 was read after pages 1..19 had arrived, and the arrival
\* of page 20 then dropped page 1 and kept page 0.
C12_Witness ==
    /\ Len(pageCache) = MAX_CACHED_PAGES
    /\ LruHas(pageCache, 0)
    /\ LruHas(pageCache, 20)
    /\ ~LruHas(pageCache, 1)

----------------------------------------------------------------------------
(* Claims about overlapping loadPages calls within one session (SpecLoad) *)

\* The page numbers loadPages(startIndex, endIndex) covers.
RangePages(startIndex, endIndex) == PageOf(startIndex)..PageOf(endIndex)

Outstanding(fs, page) == {f \in fs : f.page = page}

\* C11: when loadPages is called while another loadPages call with an
\* overlapping range is pending (no performSearch or init having run since),
\* no page of the two ranges has two fetches outstanding, and the second call
\* fetches exactly the pages of its range that are neither cached nor already
\* being fetched, each once.
C11_OverlapFetchedOnce ==
    [][\A l, o \in LoaderSlots, r \in LoadWindows :
            (/\ l # o
             /\ loaders[o].pc = "pending"
             /\ RangePages(r[1], r[2])
                    \cap RangePages(loaders[o].s, loaders[o].e) # {}
             /\ LoadPages(l, r[1], r[2]))
            => LET issued == fetches' \ fetches
               IN /\ \A p \in RangePages(r[1], r[2])
                            \cup RangePages(loaders[o].s, loaders[o].e) :
                        Cardinality(Outstanding(fetches', p)) <= 1
                  /\ {f.page : f \in issued} =
                        {p \in RangePages(r[1], r[2]) :
                            ~LruHas(pageCache, p) /\ Outstanding(fetches, p) = {}}
                  /\ Cardinality(issued) = Cardinality({f.page : f \in issued})
      ]_vars

\* C11 witness: loadPages(50, 149) and loadPages(100, 199) are both pending
\* and pages 1, 2 and 3 have one fetch each.
C11_Witness ==
    /\ loaders["L1"] = [pc |-> "pending", s |-> 50, e |-> 149]
    /\ loaders["L2"] = [pc |-> "pending", s |-> 100, e |-> 199]
    /\ {f.page : f \in fetches} = {1, 2, 3}
    /\ Cardinality(fetches) = 3

\* The cache entries, whatever their order.
Entries(cache) == {cache[i] : i \in 1..Len(cache)}

\* C14 as stated: a getItem or isItemLoaded call starts no fetch and leaves the
\* cached pages, their recency order, the loading set, the session fields and
\* entryCacheVersion as they were.
C14_ReadsChangeNothing ==
    [][(\E i \in LoadReadIndexes : GetItem(i) \/ IsItemLoaded(i))
            => UNCHANGED <<pageCache, loadingPages, searchTerm, searchMode,
                           totalCount, currentIndex, entryCacheVersion, loading,
                           error, fetches>>
      ]_vars

\* C14 amended: a getItem or isItemLoaded call starts no fetch and leaves the
\* cached pages, the loading set, the session fields and entryCacheVersion as
\* they were; isItemLoaded leaves the recency order too, and a getItem that
\* hits makes its page the most recently used one, the other pages keeping
\* their order.
C14_ReadsChangeRecencyOnly ==
    [][\A i \in LoadReadIndexes :
            /\ IsItemLoaded(i)
                => UNCHANGED <<pageCache, loadingPages, searchTerm, searchMode,
                               totalCount, currentIndex, entryCacheVersion,
                               loading, error, fetches>>
            /\ GetItem(i)
                => /\ UNCHANGED <<loadingPages, searchTerm, searchMode,
                                  totalCount, currentIndex, entryCacheVersion,
                                  loading, error, fetches>>
                   /\ Entries(pageCache') = Entries(pageCache)
                   /\ Len(pageCache') = Len(pageCache)
                   /\ LruWithout(pageCache', PageOf(i)) = LruWithout(pageCache, PageOf(i))
                   /\ LruHas(pageCache, PageOf(i))
                        => pageCache'[Len(pageCache')].page = PageOf(i)
      ]_vars

\* C14 witness: in the session of "cat", whose search stored page 2 first,
\* page 1 arrived and getItem(120) then made page 2 the most recent again,
\* while the fetch of page 3 is outstanding.
C14_Witness ==
    /\ searchTerm = Cat
    /\ [i \in 1..Len(pageCache) |-> pageCache[i].page] = <<1, 2>>
    /\ {f.page : f \in fetches} = {3}

\* The step in which performSearch("cat") of caller s, made in mode index and
\* answered {start index 120, total count 300}, resolves.
CatSearchResolves(s) ==
    /\ searches[s].pc = "loading"
    /\ Trim(searches[s].q) = Cat
    /\ searches[s].mode = "index"
    /\ searches[s].res = [start_entry_no |-> 120, total_count |-> 300]
    /\ searches'[s] = IdleSearch
    /\ latest'.out = "ok"

\* The step in which row `index` becomes available through a page that a
\* loadPages call of the consumer requested, directly or through loadEntries.
LoadedByConsumer(index) ==
    \E f \in fetches :
        /\ f.owner \in LoaderSlots \cup EntrySlots
        /\ f.page = PageOf(index)
        /\ PageArrives(f)

\* C15 as stated: when performSearch("cat") resolves, getItem(120) is defined,
\* totalCount is 300 and getItem(119) is absent; row 119 becomes available
\* only through a loadPages call of the consumer.
C15_Row119Absent ==
    /\ [][\A s \in SearchSlots :
            CatSearchResolves(s)
                => /\ ItemAt(pageCache', 120) # Undefined
                   /\ totalCount' = 300
                   /\ ItemAt(pageCache', 119) = Undefined
         ]_vars
    /\ [][(ItemAt(pageCache, 119) = Undefined /\ ItemAt(pageCache', 119) # Undefined)
                => LoadedByConsumer(119)
         ]_vars

\* C15 amended: when performSearch("cat") resolves, getItem(120) and
\* getItem(119) are defined (page 2 holds rows 100..149), totalCount is 300
\* and getItem(99) is absent; row 99 becomes available only through a
\* loadPages call of the consumer that covers page 1.
C15_Row99Absent ==
    /\ [][\A s \in SearchSlots :
            CatSearchResolves(s)
                => /\ ItemAt(pageCache', 120) # Undefined
                   /\ ItemAt(pageCache', 119) # Undefined
                   /\ totalCount' = 300
                   /\ ItemAt(pageCache', 99) = Undefined
         ]_vars
    /\ [][(ItemAt(pageCache, 99) = Undefined /\ ItemAt(pageCache', 99) # Undefined)
                => LoadedByConsumer(99)
         ]_vars

\* C15 witness: the search for "cat" has resolved with page 2 alone cached,
\* and loadPages(50, 149) has then made row 99 available.
C15_Witness ==
    /\ searchTerm = Cat
    /\ totalCount = 300
    /\ currentIndex = 120
    /\ CachedPages(pageCache) = {1, 2}
    /\ ItemAt(pageCache, 99) # Undefined
    /\ loaders["L1"] = [pc |-> "resolved", s |-> 50, e |-> 149]
    /\ Quiescent

----------------------------------------------------------------------------
(* Claims about loadEntries (SpecEntries) *)

\* C18: when loadEntries(s, e) returns or fails with the not-found error, the
\* loadPages call it awaited has settled; a result it returns holds, for every
\* index of [s, e], the row of that index and no placeholder; it fails with
\* the not-found error only if some index of [s, e] resolves to absent.
C18_EntriesCompleteOrNotFound ==
    [][\A c \in EntrySlots :
            loaders'[c] # loaders[c] =>
                LET call == loaders'[c]
                IN /\ call.pc \in {"returned", "notfound"}
                        => {f \in fetches' : f.owner = c} = {}
                   /\ call.pc = "returned"
                        => /\ DOMAIN call.entries = call.s..call.e
                           /\ \A i \in call.s..call.e :
                                /\ call.entries[i] # Undefined
                                /\ call.entries[i].index = i
                                /\ call.entries[i] = ItemAt(pageCache', i)
                   /\ call.pc = "notfound"
                        => \E i \in call.s..call.e : ItemAt(pageCache', i) = Undefined
      ]_vars

\* C18 witness: in the session of "cat" (300 rows) loadEntries(295, 304) has
\* failed with the not-found error once pages 5 and 6 had arrived: row 300
\* does not exist.
C18_Witness ==
    /\ loaders["E1"].pc = "notfound"
    /\ loaders["E1"].s = 295
    /\ totalCount = 300
    /\ {5, 6} \subseteq CachedPages(pageCache)
    /\ ItemAt(pageCache, 299) # Undefined
    /\ ItemAt(pageCache, 300) = Undefined

----------------------------------------------------------------------------
(* The highlight engine (utils/iframeTools/highlight): one highlightContext
   per loaded iframe.  matchedNode is recorded by its length.              *)

Keywords == {"k1"}
Directions == {"next", "prev"}

\* The elements mark.js hands to `each` for a keyword in the document of a
\* content item: in document order 2, 0, 1, 2, 0, 1, ... for a keyword, none
\* for the empty string.
Matches(f, keyword) ==
    IF keyword = "" THEN 0
    ELSE IF f % 3 = 1 THEN 2 ELSE IF f % 3 = 2 THEN 0 ELSE 1

\* getContext(iframe) is undefined until highlightSetup has run in the frame:
\* reading a field of it throws a TypeError.
Throws(ctx, f) == ctx[f].status # "ready"
ThrownIndex == -2

highlightSetup(ctx, f) == [ctx EXCEPT ![f] = NoContext("ready")]

RemoveAllHighlights(ctx, f) ==
    IF ctx[f].status = "ready" /\ ctx[f].markInstance
    THEN [ctx EXCEPT ![f].matchedNode = 0,
                     ![f].currentMatchIndex = -1,
                     ![f].markInstance = FALSE]
    ELSE ctx

\* Both branches of clearMatchCursor leave currentMatchIndex = -1.
clearMatchCursor(ctx, f) == [ctx EXCEPT ![f].currentMatchIndex = -1]

\* A faulty variant of setMatchCursor, for mutation of the model: the position
\* is recorded without the range check.
setMatchCursorUnchecked(ctx, f, pos) ==
    [clearMatchCursor(ctx, f) EXCEPT ![f].currentMatchIndex = pos]

setMatchCursor(ctx, f, pos) ==
    LET cleared == clearMatchCursor(ctx, f)
    IN IF pos >= 0 /\ pos < cleared[f].matchedNode
       THEN [cleared EXCEPT ![f].currentMatchIndex = pos]
       ELSE cleared

\* The value setMatchCursor returns.
setMatchCursorResult(ctx, f, pos) == pos >= 0 /\ pos < ctx[f].matchedNode

getMatchCursorIndex(ctx, f) == ctx[f].currentMatchIndex
getMatchCount(ctx, f) == ctx[f].matchedNode

\* HighlightAllOccurrencesOfString up to the call of mark(): the previous
\* highlights are removed and the context is reset for the new pass.
StartPass(ctx, f) ==
    [RemoveAllHighlights(ctx, f) EXCEPT ![f].markInstance = TRUE,
                                        ![f].matchedNode = 0,
                                        ![f].currentMatchIndex = -1]

\* A faulty variant of the done callback, for mutation of the model: match 0 is
\* activated whatever highLightFirstMatch says.
EndPassActivates(ctx, p) ==
    LET total == Matches(p.frame, p.keyword)
        marked == [ctx EXCEPT ![p.frame].matchedNode = @ + total]
    IN IF total > 0
       THEN setMatchCursor(clearMatchCursor(marked, p.frame), p.frame, 0)
       ELSE marked

\* The `each` callbacks push the marked elements, then `done` runs.
EndPass(ctx, p) ==
    LET total == Matches(p.frame, p.keyword)
        marked == [ctx EXCEPT ![p.frame].matchedNode = @ + total]
    IN IF total > 0 /\ p.highLightFirstMatch
       THEN setMatchCursor(clearMatchCursor(marked, p.frame), p.frame, 0)
       ELSE marked

----------------------------------------------------------------------------
(* The match coordinator (EntriesView.tsx) *)

\* contentItemRefs.forEach visits the refs in the order their keys were set.
FrameOrder == registry
Reverse(s) == [i \in 1..Len(s) |-> s[Len(s) + 1 - i]]

\* The content items whose ref is set, and those of them that render an iframe
Mounted(ctx) == {f \in FrameIds : ctx[f].status \in {"mounted", "loading", "ready"}}
getAllIframes(ctx) ==
    SelectSeq(FrameOrder, LAMBDA f : ctx[f].status \in {"loading", "ready"})

\* iframes.findIndex(item => getMatchCursorIndex(item.iframe) >= 0), 0-based
RECURSIVE FindIndexFrom(_, _, _)
FindIndexFrom(ctx, iframes, i) ==
    IF i > Len(iframes) THEN -1
    ELSE IF Throws(ctx, iframes[i]) THEN ThrownIndex
    ELSE IF getMatchCursorIndex(ctx, iframes[i]) >= 0 THEN i - 1
    ELSE FindIndexFrom(ctx, iframes, i + 1)

findActiveMatchIndex(ctx, iframes) == FindIndexFrom(ctx, iframes, 1)

\* list.find(item => getMatchCount(item.iframe) > 0): the frame, 0 for none
RECURSIVE FindWithMatches(_, _, _)
FindWithMatches(ctx, list, i) ==
    IF i > Len(list) THEN 0
    ELSE IF Throws(ctx, list[i]) THEN ThrownIndex
    ELSE IF getMatchCount(ctx, list[i]) > 0 THEN list[i]
    ELSE FindWithMatches(ctx, list, i + 1)

\* list.some(item => getMatchCount(item.iframe) > 0)
SomeWithMatches(ctx, list) ==
    LET found == FindWithMatches(ctx, list, 1)
    IN IF found = ThrownIndex THEN "TypeError"
       ELSE IF found # 0 THEN "true" ELSE "false"

\* A faulty variant of hasMatchInDirection, for mutation of the model: it ignores where
\* the cursor is.
hasMatchAnywhere(ctx, direction) == SomeWithMatches(ctx, getAllIframes(ctx))

hasMatchInDirection(ctx, direction) ==
    LET iframes == getAllIframes(ctx)
        activeIndex == findActiveMatchIndex(ctx, iframes)
    IN IF activeIndex = ThrownIndex THEN "TypeError"
       ELSE IF activeIndex = -1 THEN SomeWithMatches(ctx, iframes)
       ELSE LET currentMatchIndex == getMatchCursorIndex(ctx, iframes[activeIndex + 1])
                currentMatchCount == getMatchCount(ctx, iframes[activeIndex + 1])
            IN IF direction = "next"
               THEN IF currentMatchIndex < currentMatchCount - 1 THEN "true"
                    ELSE SomeWithMatches(ctx,
                            SubSeq(iframes, activeIndex + 2, Len(iframes)))
               ELSE IF currentMatchIndex > 0 THEN "true"
                    ELSE SomeWithMatches(ctx, SubSeq(iframes, 1, activeIndex))

findInitialMatchFrame(ctx, iframes, direction) ==
    IF direction = "next"
    THEN FindWithMatches(ctx, iframes, 1)
    ELSE FindWithMatches(ctx, Reverse(iframes), 1)

findAdjacentMatchFrame(ctx, iframes, activeIndex, direction) ==
    LET searchFrames == IF direction = "next"
                        THEN SubSeq(iframes, activeIndex + 2, Len(iframes))
                        ELSE Reverse(SubSeq(iframes, 1, activeIndex))
    IN FindWithMatches(ctx, searchFrames, 1)

\* The outcome of scrollToMatchInDirection: the contexts it leaves and whether
\* it threw.  Every throw happens before the first write.
scrollToMatchInDirection(ctx, direction) ==
    LET iframes == getAllIframes(ctx)
        activeIndex == findActiveMatchIndex(ctx, iframes)
        thrown == [ctx |-> ctx, thrown |-> TRUE]
    IN IF activeIndex = ThrownIndex THEN thrown
       ELSE IF activeIndex = -1
       THEN LET initialFrame == findInitialMatchFrame(ctx, iframes, direction)
            IN IF initialFrame = ThrownIndex THEN thrown
               ELSE IF initialFrame = 0 THEN [ctx |-> ctx, thrown |-> FALSE]
               ELSE LET matchCount == getMatchCount(ctx, initialFrame)
                        targetMatchIndex == IF direction = "next" THEN 0
                                            ELSE matchCount - 1
                    IN [ctx |-> setMatchCursor(ctx, initialFrame, targetMatchIndex),
                        thrown |-> FALSE]
       ELSE LET active == iframes[activeIndex + 1]
                currentMatchIndex == getMatchCursorIndex(ctx, active)
                currentMatchCount == getMatchCount(ctx, active)
                canMoveWithinCurrent ==
                    IF direction = "next"
                    THEN currentMatchIndex < currentMatchCount - 1
                    ELSE currentMatchIndex > 0
            IN IF canMoveWithinCurrent
               THEN LET nextIndex == IF direction = "next"
                                     THEN currentMatchIndex + 1
                                     ELSE currentMatchIndex - 1
                    IN [ctx |-> setMatchCursor(ctx, active, nextIndex),
                        thrown |-> FALSE]
               ELSE LET adjacentFrame ==
                            findAdjacentMatchFrame(ctx, iframes, activeIndex, direction)
                    IN IF adjacentFrame = ThrownIndex THEN thrown
                       ELSE IF adjacentFrame = 0 THEN [ctx |-> ctx, thrown |-> FALSE]
                       ELSE LET matchCount == getMatchCount(ctx, adjacentFrame)
                                targetMatchIndex == IF direction = "next" THEN 0
                                                    ELSE matchCount - 1
                            IN [ctx |-> setMatchCursor(clearMatchCursor(ctx, active),
                                                       adjacentFrame, targetMatchIndex),
                                thrown |-> FALSE]

\* The passes a setHighlight call started that have not called done yet.
OwnPasses(b) == {p \in passes : p.by = b}

\* A faulty variant of the barrier, for mutation of the model: the promises are not
\* awaited.
NotAwaited(b) == broadcasts[b].st = "waiting"

\* await Promise.all(promises): every promise of the call has resolved.
AllResolved(b) == broadcasts[b].pending = {}


\* A continuation of an awaited promise runs before the next event is handled.
ContinuationDue ==
    \E b \in BroadcastSlots : broadcasts[b].st = "waiting" /\ AllResolved(b)

(* Its content has been fetched: the iframe element is rendered with the
   content as srcDoc; its window has no highlightContext yet. *)
RenderIframe(f) ==
    /\ ~ContinuationDue
    /\ frames[f].status = "mounted"
    /\ frames' = [frames EXCEPT ![f].status = "loading"]
    /\ lastCall' = NoCall
    /\ UNCHANGED <<passes, broadcasts, highlight, registry>>
    /\ UNCHANGED <<storeVars, callVars, envVars, historyVars>>

(* handleIframeLoad -> iframeSetup: highlightSetup, then, if the highlight
   prop is set, a highlight pass with highLightFirstMatch = false. *)
handleIframeLoad(f) ==
    /\ ~ContinuationDue
    /\ frames[f].status = "loading"
    /\ IF highlight # ""
       THEN /\ frames' = StartPass(highlightSetup(frames, f), f)
            /\ passes' = passes \cup
                    {[frame |-> f, keyword |-> highlight, by |-> "onload",
                      highLightFirstMatch |-> FALSE]}
       ELSE /\ frames' = highlightSetup(frames, f)
            /\ UNCHANGED passes
    /\ lastCall' = NoCall
    /\ UNCHANGED <<broadcasts, highlight, registry>>
    /\ UNCHANGED <<storeVars, callVars, envVars, historyVars>>

(* The highlight prop changes to `next` and EntriesView.setHighlight(next)
   runs up to its await: a pass is started on every mounted content item.
   ContentItem.setHighlight rejects for an item without an iframe or without a
   highlightContext (TypeError), and Promise.all then rejects. *)
setHighlight(b, next) ==
    /\ ~ContinuationDue
    /\ broadcasts[b].st # "waiting"
    /\ OwnPasses(b) = {}
    /\ LET started == {f \in Mounted(frames) : ~Throws(frames, f)}
           failed == {f \in Mounted(frames) : Throws(frames, f)}
       IN /\ frames' = [f \in FrameIds |->
                            IF f \in started THEN StartPass(frames, f)[f]
                            ELSE frames[f]]
          /\ passes' = passes \cup
                    {[frame |-> f, keyword |-> next, by |-> b,
                      highLightFirstMatch |-> FALSE] : f \in started}
          /\ broadcasts' = [broadcasts EXCEPT ![b] =
                    [st |-> IF failed # {} THEN "rejected" ELSE "waiting",
                     pending |-> started]]
    /\ highlight' = next
    /\ UNCHANGED registry
    /\ lastCall' = NoCall
    /\ UNCHANGED <<storeVars, callVars, envVars, historyVars>>

(* mark.js finishes a pass: each, done, resolve(totalMarks). *)
FinishPass(p) ==
    /\ ~ContinuationDue
    /\ p \in passes
    /\ frames' = EndPass(frames, p)
    /\ passes' = passes \ {p}
    /\ broadcasts' = IF p.by \in BroadcastSlots
                     THEN [broadcasts EXCEPT ![p.by].pending = @ \ {p.frame}]
                     ELSE broadcasts
    /\ lastCall' = NoCall
    /\ UNCHANGED <<highlight, registry>>
    /\ UNCHANGED <<storeVars, callVars, envVars, historyVars>>

(* setHighlight after its await: the first frame with matches gets the cursor
   on its match 0. *)
ActivateFirstMatch(b) ==
    /\ broadcasts[b].st = "waiting"
    /\ AllResolved(b)
    /\ LET firstMatchIframe ==
                findInitialMatchFrame(frames, getAllIframes(frames), "next")
       IN IF firstMatchIframe = ThrownIndex
          THEN /\ broadcasts' = [broadcasts EXCEPT ![b].st = "rejected"]
               /\ UNCHANGED frames
          ELSE /\ broadcasts' = [broadcasts EXCEPT ![b].st = "done"]
               /\ frames' = IF firstMatchIframe = 0 THEN frames
                            ELSE setMatchCursor(frames, firstMatchIframe, 0)
    /\ lastCall' = NoCall
    /\ UNCHANGED <<passes, highlight, registry>>
    /\ UNCHANGED <<storeVars, callVars, envVars, historyVars>>

OpName(kind, direction) ==
    IF kind = "has"
    THEN (IF direction = "next" THEN "hasNextMatch" ELSE "hasPrevMatch")
    ELSE (IF direction = "next" THEN "scrollToNextMatch" ELSE "scrollToPrevMatch")

(* scrollToNextMatch / scrollToPrevMatch *)
ScrollToMatch(direction) ==
    /\ ~ContinuationDue
    /\ LET out == scrollToMatchInDirection(frames, direction)
       IN /\ frames' = out.ctx
          /\ lastCall' = [op |-> OpName("scroll", direction),
                          result |-> IF out.thrown THEN "TypeError"
                                     ELSE IF out.ctx # frames THEN "moved"
                                     ELSE "stayed"]
    /\ UNCHANGED <<passes, broadcasts, highlight, registry>>
    /\ UNCHANGED <<storeVars, callVars, envVars, historyVars>>

(* hasNextMatch / hasPrevMatch *)
HasMatch(direction) ==
    /\ ~ContinuationDue
    /\ lastCall' = [op |-> OpName("has", direction),
                    result |-> hasMatchInDirection(frames, direction)]
    /\ UNCHANGED <<frames, passes, broadcasts, highlight, registry>>
    /\ UNCHANGED <<storeVars, callVars, envVars, historyVars>>

\* For each key of the Map in insertion order, is it in the set?
InRegistry(f) == \E i \in 1..Len(registry) : registry[i] = f

\* indexes.map(...) renders the entries of the list in its order; the lists
\* modelled hold their entries in ascending entry number.
RECURSIVE Ascending(_)
Ascending(S) ==
    IF S = {} THEN <<>>
    ELSE LET m == CHOOSE x \in S : \A y \in S : x <= y
         IN <<m>> \o Ascending(S \ {m})

(* EntriesView renders a new indexes prop, the entries `shown`: getItemRef sets
   a ref for each key the Map does not hold yet, in render order, and deletes
   none; the item of an entry no longer shown unmounts and its ref becomes
   null, the item of an entry newly shown mounts, the item of an entry shown
   before and after is kept.  Modelled for a change made while no highlight
   pass and no broadcast is under way. *)
RenderIndexes(shown) ==
    /\ passes = {}
    /\ \A b \in BroadcastSlots : broadcasts[b].st # "waiting"
    /\ shown # Mounted(frames)
    /\ frames' = [f \in FrameIds |->
                    IF f \notin shown THEN NoContext("unmounted")
                    ELSE IF f \in Mounted(frames) THEN frames[f]
                    ELSE NoContext("mounted")]
    /\ registry' = registry \o
                    SelectSeq(Ascending(shown), LAMBDA f : ~InRegistry(f))
    /\ lastCall' = NoCall
    /\ UNCHANGED <<passes, broadcasts, highlight>>
    /\ UNCHANGED <<storeVars, callVars, envVars, historyVars>>

----------------------------------------------------------------------------
(* SpecFrames: one EntriesView whose content items mount and load, highlight
   broadcasts that may overlap, and match navigation *)

InitFrames ==
    /\ StoreInitState
    /\ HistoryInitState
    /\ ipcOrder = "any"
    /\ FramesInitState

\* A new broadcast takes the first free call slot.
FreeBroadcast(b) == broadcasts[b].st # "waiting" /\ OwnPasses(b) = {}
FreeBroadcastSlot(b) == FreeBroadcast(b) /\ (b = "B1" \/ ~FreeBroadcast("B1"))

IframeRendered == \E f \in FrameIds : RenderIframe(f)
IframeLoads == \E f \in FrameIds : handleIframeLoad(f)
CallSetHighlight ==
    \E b \in BroadcastSlots, next \in Keywords :
        FreeBroadcastSlot(b) /\ setHighlight(b, next)
\* A broadcast is made when none is under way and no pass is running.
SoleSetHighlight ==
    \E next \in Keywords :
        /\ passes = {}
        /\ \A b \in BroadcastSlots : broadcasts[b].st # "waiting"
        /\ setHighlight("B1", next)
PassDone == \E p \in passes : FinishPass(p)
BroadcastContinues == \E b \in BroadcastSlots : ActivateFirstMatch(b)
CallScrollToMatch == \E d \in Directions : ScrollToMatch(d)
CallHasMatch == \E d \in Directions : HasMatch(d)

NextFrames ==
    \/ IframeRendered
    \/ IframeLoads
    \/ CallSetHighlight
    \/ PassDone
    \/ BroadcastContinues
    \/ CallScrollToMatch
    \/ CallHasMatch

SpecFrames == InitFrames /\ [][NextFrames]_vars

----------------------------------------------------------------------------
(* SpecCursor: the EntriesView of SpecFrames with broadcasts made one at a
   time and, in the place of match navigation, setMatchCursor called directly on
   a loaded frame at any position, in range or not *)

CursorPositions == -1..2

(* setMatchCursor(iframe, pos, scrollTo) on a frame whose highlightContext is
   set up. *)
SetMatchCursor(f, pos) ==
    /\ ~ContinuationDue
    /\ frames[f].status = "ready"
    /\ frames' = setMatchCursor(frames, f, pos)
    /\ lastCall' = [op |-> "setMatchCursor",
                    result |-> IF setMatchCursorResult(frames, f, pos)
                               THEN "true" ELSE "false"]
    /\ UNCHANGED <<passes, broadcasts, highlight, registry>>
    /\ UNCHANGED <<storeVars, callVars, envVars, historyVars>>

CallSetMatchCursor ==
    \E f \in FrameIds, pos \in CursorPositions : SetMatchCursor(f, pos)

NextCursor ==
    \/ IframeRendered
    \/ IframeLoads
    \/ SoleSetHighlight
    \/ PassDone
    \/ BroadcastContinues
    \/ CallSetMatchCursor

SpecCursor == InitFrames /\ [][NextCursor]_vars

----------------------------------------------------------------------------
(* SpecDisplay: one EntriesView that starts with nothing on display and whose
   displayed entries change, with content items that load and highlight
   broadcasts made one at a time *)

InitDisplay ==
    /\ StoreInitState
    /\ HistoryInitState
    /\ ipcOrder = "any"
    /\ frames = [f \in FrameIds |-> NoContext("unmounted")]
    /\ passes = {}
    /\ broadcasts = [b \in BroadcastSlots |-> IdleBroadcast]
    /\ highlight = ""
    /\ registry = <<>>
    /\ lastCall = NoCall

DisplayChanges == \E shown \in SUBSET FrameIds : RenderIndexes(shown)

NextDisplay ==
    \/ DisplayChanges
    \/ IframeRendered
    \/ IframeLoads
    \/ SoleSetHighlight
    \/ PassDone
    \/ BroadcastContinues

SpecDisplay == InitDisplay /\ [][NextDisplay]_vars

----------------------------------------------------------------------------------------------------------------------------------------
(* The history store (useHistoryStore.ts).  An entry is recorded by the id the
   backend gave it. *)

\* state.history.findIndex(entry => entry.id === id), 0-based, -1 if absent
HistoryFindIndex(h, id) ==
    IF \E i \in 1..Len(h) : h[i] = id
    THEN (CHOOSE i \in 1..Len(h) : h[i] = id /\ \A j \in 1..(i - 1) : h[j] # id) - 1
    ELSE -1

\* The state update of addToHistory: forward history is truncated, the new
\* entry is pushed and becomes the current one.
Pushed(st, id) ==
    LET kept == IF st.currentIndex < Len(st.history) - 1
                THEN SubSeq(st.history, 1, st.currentIndex + 1)
                ELSE st.history
        h == Append(kept, id)
    IN [st EXCEPT !.history = h, !.currentIndex = Len(h) - 1]

\* The state update of removeFromHistory: the entry is spliced out and the
\* current index adjusted.
Removed(st, id) ==
    LET index == HistoryFindIndex(st.history, id)
        h == SubSeq(st.history, 1, index) \o SubSeq(st.history, index + 2, Len(st.history))
    IN IF index = -1 THEN st
       ELSE [st EXCEPT !.history = h,
                       !.currentIndex =
                            IF st.currentIndex >= Len(h) THEN Len(h) - 1
                            ELSE IF st.currentIndex >= index
                                 THEN Max(-1, st.currentIndex - 1)
                            ELSE st.currentIndex]

\* withAsyncHandler: loading is set and the error cleared before the call.
\* A new call takes the first free call slot.
HistoryCallStarts(c, call) ==
    /\ historyCalls[c].op = "idle"
    /\ (c = "H1" \/ historyCalls["H1"].op # "idle")
    /\ historyCalls' = [historyCalls EXCEPT ![c] = call]
    /\ historyStore' = [historyStore EXCEPT !.loading = TRUE, !.error = "null"]

(* addToHistory(keyword, groupIndex, profileId, profileName), up to its await:
   the backend creates the entry. *)
AddToHistory(c) ==
    /\ historyBackend < MaxHistoryAdds
    /\ historyBackend' = historyBackend + 1
    /\ HistoryCallStarts(c, [op |-> "addToHistory", id |-> historyBackend + 1])
    /\ UNCHANGED <<storeVars, callVars, envVars, frameVars>>

(* removeFromHistory(id), up to its await *)
RemoveFromHistory(c, id) ==
    /\ HistoryCallStarts(c, [op |-> "removeFromHistory", id |-> id])
    /\ UNCHANGED historyBackend
    /\ UNCHANGED <<storeVars, callVars, envVars, frameVars>>

(* clearHistory(), up to its await *)
ClearHistory(c) ==
    /\ HistoryCallStarts(c, [op |-> "clearHistory", id |-> 0])
    /\ UNCHANGED historyBackend
    /\ UNCHANGED <<storeVars, callVars, envVars, frameVars>>

(* The backend call of a wrapped action resolves: its state update runs, then
   the finally of withAsyncHandler. *)
HistoryCallResolves(c) ==
    /\ historyCalls[c].op # "idle"
    /\ LET call == historyCalls[c]
           updated == IF call.op = "addToHistory"
                      THEN Pushed(historyStore, call.id)
                      ELSE IF call.op = "removeFromHistory"
                      THEN Removed(historyStore, call.id)
                      ELSE [historyStore EXCEPT !.history = <<>>,
                                                !.currentIndex = -1]
       IN historyStore' = [updated EXCEPT !.loading = FALSE]
    /\ historyCalls' = [historyCalls EXCEPT ![c] = [op |-> "idle", id |-> 0]]
    /\ UNCHANGED historyBackend
    /\ UNCHANGED <<storeVars, callVars, envVars, frameVars>>

(* The backend call rejects: catch and finally of withAsyncHandler. *)
HistoryCallRejects(c) ==
    /\ historyCalls[c].op # "idle"
    /\ historyStore' =
            [historyStore EXCEPT
                !.loading = FALSE,
                !.error = IF historyCalls[c].op = "addToHistory"
                          THEN "Failed to add to history"
                          ELSE IF historyCalls[c].op = "removeFromHistory"
                          THEN "Failed to remove from history"
                          ELSE "Failed to clear history"]
    /\ historyCalls' = [historyCalls EXCEPT ![c] = [op |-> "idle", id |-> 0]]
    /\ UNCHANGED historyBackend
    /\ UNCHANGED <<storeVars, callVars, envVars, frameVars>>

(* goBack *)
goBack ==
    /\ historyStore' =
            IF historyStore.currentIndex > 0
            THEN [historyStore EXCEPT !.currentIndex = @ - 1]
            ELSE historyStore
    /\ UNCHANGED <<historyCalls, historyBackend>>
    /\ UNCHANGED <<storeVars, callVars, envVars, frameVars>>

(* goForward *)
goForward ==
    /\ historyStore' =
            IF historyStore.currentIndex < Len(historyStore.history) - 1
            THEN [historyStore EXCEPT !.currentIndex = @ + 1]
            ELSE historyStore
    /\ UNCHANGED <<historyCalls, historyBackend>>
    /\ UNCHANGED <<storeVars, callVars, envVars, frameVars>>

(* goToIndex(index) *)
goToIndex(index) ==
    /\ historyStore' =
            IF index >= 0 /\ index < Len(historyStore.history)
            THEN [historyStore EXCEPT !.currentIndex = index]
            ELSE historyStore
    /\ UNCHANGED <<historyCalls, historyBackend>>
    /\ UNCHANGED <<storeVars, callVars, envVars, frameVars>>

----------------------------------------------------------------------------
(* SpecHistory: the history store under calls that may overlap *)

InitHistory ==
    /\ StoreInitState
    /\ HistoryInitState
    /\ ipcOrder = "any"
    /\ FramesInitState

NextHistory ==
    \/ \E c \in HistorySlots : AddToHistory(c)
    \/ \E c \in HistorySlots, id \in 1..MaxHistoryAdds : RemoveFromHistory(c, id)
    \/ \E c \in HistorySlots : ClearHistory(c)
    \/ \E c \in HistorySlots : HistoryCallResolves(c)
    \/ \E c \in HistorySlots : HistoryCallRejects(c)
    \/ goForward
    \/ goBack
    \/ \E index \in -1..MaxHistoryAdds : goToIndex(index)

SpecHistory == InitHistory /\ [][NextHistory]_vars

----------------
(* Claims about the match coordinator (SpecFrames) *)

\* The matches in the cursor style, and all matches, as <<frame, index>>.
ActiveMatches(ctx) ==
    {<<f, ctx[f].currentMatchIndex>> :
        f \in {g \in FrameIds : ctx[g].currentMatchIndex >= 0}}
AllMatches(ctx) ==
    UNION {{<<f, i>> : i \in 0..(ctx[f].matchedNode - 1)} : f \in FrameIds}

\* Document order of frames, then match index.
Before(m, n) == m[1] < n[1] \/ (m[1] = n[1] /\ m[2] < n[2])
Earliest(ms) == {m \in ms : \A n \in ms : ~Before(n, m)}

\* C2: at most one frame has currentMatchIndex >= 0, whatever setHighlight
\* broadcasts and navigation calls have run and however the passes finished.
C2_OneActiveMatch == Cardinality(ActiveMatches(frames)) <= 1

\* C6: with no active match scrollToNextMatch activates the first match in
\* (frame, index) order; with one active match it activates the next match in
\* that order and only that; at the last match hasNextMatch is false and
\* scrollToNextMatch changes nothing.
C6_NextVisitsInOrder ==
    LET after == scrollToMatchInDirection(frames, "next").ctx
        current == ActiveMatches(frames)
        all == AllMatches(frames)
    IN /\ current = {} => ActiveMatches(after) = Earliest(all)
       /\ \A m \in all :
            current = {m} =>
                LET later == {n \in all : Before(m, n)}
                IN IF later = {}
                   THEN /\ after = frames
                        /\ hasMatchInDirection(frames, "next") = "false"
                   ELSE ActiveMatches(after) = Earliest(later)

Latest(ms) == {m \in ms : \A n \in ms : ~Before(m, n)}

\* C19: with one match active scrollToPrevMatch activates the match before it
\* in (frame, index) order and only that, so that from the last match the
\* matches are visited in the reverse of the order scrollToNextMatch visits
\* them; at the first match hasPrevMatch is false and scrollToPrevMatch
\* changes nothing.
C19_PrevVisitsInReverse ==
    LET after == scrollToMatchInDirection(frames, "prev").ctx
        current == ActiveMatches(frames)
        all == AllMatches(frames)
    IN \A m \in all :
            current = {m} =>
                LET earlier == {n \in all : Before(n, m)}
                IN IF earlier = {}
                   THEN /\ after = frames
                        /\ hasMatchInDirection(frames, "prev") = "false"
                   ELSE ActiveMatches(after) = Latest(earlier)

\* C7: hasNextMatch is true exactly when scrollToNextMatch would change which
\* match is active, hasPrevMatch likewise for scrollToPrevMatch, and a step
\* that answers one of the two queries changes nothing else.
C7_QueryAgreesWithScroll ==
    /\ [](\A d \in Directions :
            (hasMatchInDirection(frames, d) = "true")
                <=> (ActiveMatches(scrollToMatchInDirection(frames, d).ctx)
                        # ActiveMatches(frames)))
    /\ [][lastCall'.op \in {"hasNextMatch", "hasPrevMatch"}
                => UNCHANGED <<frames, passes, broadcasts, highlight>>]_vars

\* C7 witness: hasNextMatch has just answered false with the cursor on the
\* last match, F3[0], while F1 holds two matches before it.
C7_Witness ==
    /\ lastCall = [op |-> "hasNextMatch", result |-> "false"]
    /\ ActiveMatches(frames) = {<<3, 0>>}
    /\ frames[1].matchedNode = 2

\* C8: the step in which a setHighlight call goes on past its await and picks
\* the first match is taken only when no pass of that call is still running.
C8_ActivationAfterAllPasses ==
    [][\A b \in BroadcastSlots :
            (broadcasts[b].st = "waiting" /\ broadcasts'[b].st # "waiting")
                => OwnPasses(b) = {}
      ]_vars

\* C8 witness: a broadcast over three loaded frames has finished, F3's pass
\* found its match and the cursor is on F1[0].
C8_Witness ==
    /\ broadcasts["B1"].st = "done"
    /\ \A f \in 1..3 : frames[f].status = "ready" /\ frames[f].markInstance
    /\ frames[3].matchedNode = 1
    /\ ActiveMatches(frames) = {<<1, 0>>}
    /\ passes = {}

\* The frames of a set that come first in document order.
FirstInDocument(fs) == {f \in fs : \A g \in fs : f <= g}

\* C20: when a setHighlight broadcast completes, the active match is match 0 of
\* the first displayed frame, in document order, that has a match, and no match
\* is active if no displayed frame has one, also after the displayed set has
\* changed.
C20_FirstDisplayedMatchActive ==
    [][\A b \in BroadcastSlots :
            (broadcasts[b].st = "waiting" /\ broadcasts'[b].st = "done")
                => ActiveMatches(frames') =
                     {<<f, 0>> : f \in FirstInDocument(
                        {g \in Mounted(frames') : frames'[g].matchedNode > 0})}
      ]_vars

\* C21: a highlight pass on a content item that has no renderable document yet
\* (no iframe, or an iframe that has not loaded) resolves with 0 and raises no
\* error, so no setHighlight broadcast is ever rejected.
C21_NoBroadcastRejected ==
    \A b \in BroadcastSlots : broadcasts[b].st # "rejected"

\* C22: hasNextMatch, hasPrevMatch, scrollToNextMatch and scrollToPrevMatch
\* never fail, whatever frames have appeared since the last call: a frame
\* whose highlight context has not been set up counts as one without matches.
C22_NavigationNeverThrows == lastCall.result # "TypeError"

\* C23 as stated: when a pass started by a broadcast or by the load handler
\* completes with at least one match, match 0 of its frame is the active one.
C23_PassActivatesFirst ==
    [][\A p \in passes :
            (FinishPass(p) /\ Matches(p.frame, p.keyword) > 0)
                => frames'[p.frame].currentMatchIndex = 0
      ]_vars

\* C23: a pass started by a broadcast or by the load handler runs with
\* highLightFirstMatch = false: when it completes, the matches it found are
\* recorded in its frame, the frame's currentMatchIndex is left as it was and
\* no other frame is touched; the promise of the pass is resolved.
C23_PassActivatesNothing ==
    [][\A p \in passes :
            FinishPass(p)
                => /\ ~p.highLightFirstMatch
                   /\ frames'[p.frame].currentMatchIndex
                        = frames[p.frame].currentMatchIndex
                   /\ frames'[p.frame].matchedNode
                        = frames[p.frame].matchedNode
                            + Matches(p.frame, p.keyword)
                   /\ \A g \in FrameIds \ {p.frame} : frames'[g] = frames[g]
                   /\ p.by \in BroadcastSlots
                        => p.frame \notin broadcasts'[p.by].pending
      ]_vars

\* C23 witness: a broadcast has finished; the pass on F3 found its match and
\* left it inactive, the cursor is on F1[0] only.
C23_Witness ==
    /\ broadcasts["B1"].st = "done"
    /\ frames[3].matchedNode = 1
    /\ frames[3].currentMatchIndex = -1
    /\ frames[1].matchedNode = 2
    /\ ActiveMatches(frames) = {<<1, 0>>}
    /\ passes = {}
    /\ lastCall = NoCall

\* Is the frame's currentMatchIndex -1 or an index into its matched elements?
CursorInRange(ctx, f) ==
    \/ ctx[f].currentMatchIndex = -1
    \/ (ctx[f].currentMatchIndex >= 0
            /\ ctx[f].currentMatchIndex < ctx[f].matchedNode)

\* C24: setMatchCursor(frame, pos, scroll) records pos and returns true if
\* 0 <= pos < matchCount, and otherwise leaves currentMatchIndex = -1 and
\* returns false, the match active before being cleared either way; every
\* step leaves every frame with currentMatchIndex -1 or a valid index.
C24_CursorInRange ==
    [][/\ \A f \in FrameIds : CursorInRange(frames', f)
       /\ \A f \in FrameIds, pos \in CursorPositions :
            SetMatchCursor(f, pos)
                => /\ \A g \in FrameIds \ {f} : frames'[g] = frames[g]
                   /\ IF 0 <= pos /\ pos < frames[f].matchedNode
                      THEN /\ frames'[f].currentMatchIndex = pos
                           /\ lastCall'.result = "true"
                      ELSE /\ frames'[f].currentMatchIndex = -1
                           /\ lastCall'.result = "false"
      ]_vars

\* C24 witness: setMatchCursor has just returned false for a position out of
\* range in a frame with matches, after a broadcast had activated F1[0]; no
\* match is active.
C24_Witness ==
    /\ lastCall = [op |-> "setMatchCursor", result |-> "false"]
    /\ broadcasts["B1"].st = "done"
    /\ broadcasts["B2"].st = "idle"
    /\ passes = {}
    /\ frames[1].matchedNode = 2
    /\ frames[3].matchedNode = 1
    /\ ActiveMatches(frames) = {}

\* The first index of every page a session of the model can hold.
ProbeIndexes == {p * PAGE_SIZE : p \in 0..PageOf(1000)}

\* C25: a step that changes the answer of getItem(i) or of isItemLoaded(i)
\* for some index i changes entryCacheVersion.
C25_VersionSignalsChange ==
    [][(\E i \in ProbeIndexes :
            \/ ItemAt(pageCache', i) # ItemAt(pageCache, i)
            \/ LruHas(pageCache', PageOf(i)) # LruHas(pageCache, PageOf(i)))
        => entryCacheVersion' # entryCacheVersion
      ]_vars

\* The step in which the last performSearch call in flight settles.
LastSearchSettles ==
    /\ \E s \in SearchSlots : InFlightSearch(s)
    /\ \A s \in SearchSlots : ~InFlightSearch(s)'

\* C26: when performSearch calls have overlapped and the last of them settles,
\* the most recently issued call having succeeded, searchTerm, totalCount and
\* currentIndex are those of the most recently issued call (or, init() having
\* run since, those of the cleared session).
C26_LatestSearchWins ==
    [][(LastSearchSettles /\ latest'.over /\ latest'.out = "ok")
        => LET res == SearchAnswer(latest'.q, latest'.mode)
           IN \/ /\ searchTerm' = latest'.q
                 /\ totalCount' = res.total_count
                 /\ currentIndex' = res.start_entry_no
              \/ /\ searchTerm' = Empty
                 /\ totalCount' = 0
                 /\ currentIndex' = -1
      ]_vars

\* C27: in the step in which a loadPages call resolves, no performSearch or
\* init having run since it was made, every page of its range is in the
\* cache, also when another pending call was fetching some of them.
C27_ResolvedRangeCached ==
    [][\A l \in LoaderSlots :
            (loaders'[l].pc = "resolved" /\ loaders'[l] # loaders[l])
                => \A p \in RangePages(loaders'[l].s, loaders'[l].e) :
                        LruHas(pageCache', p)
      ]_vars

\* C28: in the step in which a performSearch call fails, whether its search or
\* its initial page load was rejected, the failure is in the error field and
\* searchTerm, totalCount, currentIndex and the cached pages are those of the
\* time of the call.
C28_FailedSearchChangesNothing ==
    [][(latest.out = "none" /\ latest'.out = "failed")
        => /\ error' = PerformSearchError
           /\ searchTerm' = latest.before.term
           /\ totalCount' = latest.before.total
           /\ currentIndex' = latest.before.index
           /\ Entries(pageCache') = latest.before.cache
      ]_vars

\* C29: loading is true in every state in which a performSearch call, wrapped
\* by withAsyncHandler, is in flight, also when such calls overlap, and false
\* once every call has settled.
C29_LoadingWhileInFlight ==
    /\ (\E s \in SearchSlots : InFlightSearch(s)) => loading
    /\ ((\A s \in SearchSlots : ~InFlightSearch(s)) /\ initCall = "idle")
            => ~loading

\* C30: in the history store currentIndex is -1 exactly when history is empty
\* and otherwise a position in 0..history.length-1, whatever addToHistory,
\* goBack, goForward, goToIndex, removeFromHistory and clearHistory calls
\* have run.
C30_HistoryIndexValid ==
    /\ historyStore.currentIndex = -1 <=> historyStore.history = <<>>
    /\ historyStore.history # <<>> =>
            historyStore.currentIndex \in 0..(Len(historyStore.history) - 1)

============================================================================
